---- MODULE Spec2Model ----
(***************************************************************************)
(* Sale-transaction write path of the point-of-sale server.                *)
(*                                                                         *)
(* The model follows the POST /api/sales handler (routes, "Sales API") and *)
(* the MongoStorage methods it calls, one action per await of the handler, *)
(* together with the catalog and user routes of an administrator, the     *)
(* GET routes of a reader and the checkout mutation of the POS page.       *)
(* Each specification below combines the handler with one of these.        *)
(*                                                                         *)
(* Quantities are JavaScript numbers; the handler accepts non-integers.    *)
(* Every quantity of the model is counted in HALF units, so that 2 is one  *)
(* unit, 1 is 0.5 unit and -2 is minus one unit.  Prices and totals are    *)
(* counted in minor currency units.                                        *)
(***************************************************************************)
EXTENDS Integers, Sequences, FiniteSets, TLC

VARIABLES
    products,   \* Product collection: id -> [quantity, price], domain = existing ids
    sales,      \* Sale collection, in creation order
    saleItems,  \* SaleItem collection, in insertion order
    req,        \* one record per HTTP request to POST /api/sales
    users,      \* User collection: id -> [role]
    view,       \* what a reader of the API has been answered so far
    gate,       \* the last request that went through an access check
    cart,       \* the cart of the POS page
    edits,      \* number of catalog requests served so far
    initial     \* the product collection at start (never changes)

vars == <<products, sales, saleItems, req, users, edits, view, gate, cart, initial>>

----------------------------------------------------------------------------
(* Bounds of the model *)

MaxStock == 1   \* largest initial stock, in whole units
MaxLines == 2   \* longest cart
MaxEdits == 1   \* catalog requests per behaviour
MaxCalls == 2   \* requests to the administrator routes per behaviour
MaxCartQuantity == 3   \* largest quantity a card click raises a cart entry to

ProductIds == {"P1", "P2"}

\* Two requests to POST /api/sales may be in flight together.  Their names are
\* interchangeable, so "r1" always names the one submitted first.
Requests == {"r1", "r2"}

\* quantities a cart line may carry: 0, 0.5 and 1 unit
LineQuantities == {0, 1, 2}
\* the unit price the client shows, and sends, for each product
ListPrice == [p \in ProductIds |-> IF p = "P1" THEN 1 ELSE 2]
\* totals a client may put in the sale header (-1 fails the schema)
ClientTotals == {-1, 2}
\* quantities a catalog PATCH may write: -1 and +1 unit
PatchQuantities == {-2, 2}
\* prices a catalog PATCH may write: none of the list prices
PatchPrices == {3}

\* a field the request body does not carry
Absent == "(absent)"
\* customer names of a sale header
CustomerNames == {Absent, "Ann"}
\* the payment modes of the store's Sale schema
PaymentModeEnum == {"Cash", "Card", "UPI"}
\* payment modes of a sale header
PaymentModes == {Absent} \cup PaymentModeEnum

UserIds == {"u0", "u1", "u2"}
Roles == {"admin", "sales", "manager"}
\* the role each user registered with
FirstRole == [u \in UserIds |->
                IF u = "u0" THEN "admin" ELSE IF u = "u1" THEN "sales" ELSE "manager"]
\* a requester without a session
Anonymous == "(anonymous)"
\* the requesters of a request: nobody logged in, or a seller
SomeRequesters == {Anonymous, "u1"}

StockLevels == {2 * n : n \in 0..MaxStock}

Lines ==
    {[productId |-> p, quantity |-> q, price |-> ListPrice[p]] :
        p \in ProductIds, q \in LineQuantities}

Carts == UNION {[1..n -> Lines] : n \in 0..MaxLines}

\* the one-line carts
RivalCarts == [1..1 -> Lines]

----------------------------------------------------------------------------
(* Pure helpers *)

IsInteger(q) == q % 2 = 0

\* pos-page: total = sum of price * quantity, then toFixed(2)
RECURSIVE SumHalves(_)
SumHalves(items) ==
    IF items = << >> THEN 0
    ELSE Head(items).price * Head(items).quantity + SumHalves(Tail(items))

CartTotal(items) == (SumHalves(items) + 1) \div 2

\* quantity a cart asks of product p, over all its lines
RECURSIVE Requested(_, _)
Requested(items, p) ==
    IF items = << >> THEN 0
    ELSE (IF Head(items).productId = p THEN Head(items).quantity ELSE 0)
         + Requested(Tail(items), p)

\* quantity of product p that the inventory loop of request record q has
\* subtracted so far
AppliedBy(q, p) == Requested(SubSeq(q.items, 1, q.applied), p)

----------------------------------------------------------------------------
(* Schemas and storage methods *)

\* shared schema: total: z.number().min(0)
insertSaleSchemaOk(sale) == sale.total >= 0

\* insertSaleSchema.parse(sale): the object with the keys the schema names,
\* total and customerName; any other key of the body is dropped
insertSaleSchemaParse(sale) ==
    [total |-> sale.total, customerName |-> sale.customerName]

\* routes: !item.quantity || typeof item.quantity !== "number" || item.quantity <= 0
QuantityRejected(q) == q = 0 \/ q <= 0

\* a stock check that also turns away a line asking for all that is left
StockRejected_OrEqual(q, product) == q >= product.quantity

\* a handler without the stock check
StockRejected_Off(q, product) == FALSE

\* routes: item.quantity > product.quantity
StockRejected(q, product) == q > product.quantity

\* MongoStorage.getProduct: Product.findById finds a document
HasProduct(ps, id) == id \in DOMAIN ps

\* an update that writes the delta as the new quantity ($set for $inc)
IncQuantity_Set(ps, id, amount) ==
    IF id \in DOMAIN ps
    THEN [ps EXCEPT ![id].quantity = amount]
    ELSE ps

\* MongoStorage.updateProduct with {$inc: {quantity: -amount}}:
\* findByIdAndUpdate, atomic in the store, null (no change) on a missing id
IncQuantity(ps, id, amount) ==
    IF id \in DOMAIN ps
    THEN [ps EXCEPT ![id].quantity = @ + amount]
    ELSE ps

\* MongoStorage.updateProduct with a PATCH body carrying a quantity
SetQuantity(ps, id, q) ==
    IF id \in DOMAIN ps
    THEN [ps EXCEPT ![id].quantity = q]
    ELSE ps

\* MongoStorage.updateProduct with a PATCH body carrying a price
SetPrice(ps, id, price) ==
    IF id \in DOMAIN ps
    THEN [ps EXCEPT ![id].price = price]
    ELSE ps

\* MongoStorage.createProduct
InsertProduct(ps, id, q) ==
    [x \in DOMAIN ps \cup {id} |->
        IF x = id THEN [quantity |-> q, price |-> ListPrice[id]] ELSE ps[x]]

\* MongoStorage.deleteProduct
RemoveProduct(ps, id) == [x \in DOMAIN ps \ {id} |-> ps[x]]

\* MongoStorage.createSale: Sale.create(sale) with the defaults of the
\* store's schema: paymentMode "Cash" when the object has none, createdAt the
\* time of creation (counted in Sales created)
InsertSale(ss, sale) ==
    Append(ss, [id |-> Len(ss) + 1,
                total |-> sale.total,
                customerName |-> sale.customerName,
                paymentMode |-> IF "paymentMode" \in DOMAIN sale
                                   /\ sale.paymentMode # Absent
                                THEN sale.paymentMode ELSE "Cash",
                createdAt |-> Len(ss) + 1])

\* MongoStorage.updateUserRole
SetRole(us, id, role) ==
    IF id \in DOMAIN us THEN [us EXCEPT ![id].role = role] ELSE us

\* an insert that reads the unit price from the product, not from the line
InsertSaleItems_LivePrice(si, saleId, items) ==
    si \o [k \in 1..Len(items) |->
            [saleId |-> saleId, productId |-> items[k].productId,
             quantity |-> items[k].quantity,
             price |-> IF items[k].productId \in DOMAIN products
                       THEN products[items[k].productId].price
                       ELSE items[k].price]]

\* an insert that stops after the first item (create for insertMany)
InsertSaleItems_FirstOnly(si, saleId, items) ==
    si \o [k \in 1..(IF items = << >> THEN 0 ELSE 1) |->
            [saleId |-> saleId, productId |-> items[k].productId,
             quantity |-> items[k].quantity, price |-> items[k].price]]

\* MongoStorage.createSaleItems: insertMany(items with saleId)
InsertSaleItems(si, saleId, items) ==
    si \o [k \in 1..Len(items) |->
            [saleId |-> saleId, productId |-> items[k].productId,
             quantity |-> items[k].quantity, price |-> items[k].price]]

----------------------------------------------------------------------------
(* Documents of the three collections *)

\* Product: quantity and price are Numbers with no minimum in the store's schema
ProductDoc == [quantity : Int, price : Int]

\* Sale: the identity given by the store, the total, the customer's name, the
\* payment mode and the creation time
SaleDoc ==
    [id : Nat \ {0}, total : Int, customerName : CustomerNames,
     paymentMode : PaymentModeEnum, createdAt : Nat]

UserDoc == [role : Roles]

\* SaleItem: references to its Sale and Product, quantity and unit price
SaleItemDoc ==
    [saleId : Nat \ {0}, productId : ProductIds, quantity : Int, price : Int]

TypeOK ==
    /\ DOMAIN products \subseteq ProductIds
    /\ \A p \in DOMAIN products : products[p] \in ProductDoc
    /\ \A k \in 1..Len(sales) : sales[k] \in SaleDoc /\ sales[k].id = k
    /\ \A k \in 1..Len(saleItems) : saleItems[k] \in SaleItemDoc
    /\ \A r \in Requests :
         /\ req[r].pc \in {"idle", "validating", "persistSale", "persistItems",
                           "applyStock", "done", "legacySale", "legacyItem",
                           "legacyRead", "legacyWrite"}
         /\ req[r].items \in Carts
         /\ req[r].status \in {0, 201, 400, 401}
    /\ users \in [UserIds -> UserDoc]
    /\ view.pc \in {"start", "sales", "products"}
    /\ edits \in 0..MaxEdits
    /\ gate.calls \in 0..MaxCalls
    /\ \A k \in 1..Len(cart) :
         /\ cart[k].productId \in ProductIds
         /\ cart[k].stock \in Int
         /\ cart[k].quantity \in Int
    /\ gate.actor \in {Anonymous} \cup UserIds
    /\ gate.status \in {0, 200, 401, 403}

----------------------------------------------------------------------------
(* The POST /api/sales handler *)

\* the checks of one turn with the quantity looked at before the product
LineError_QuantityFirst(item, ps) ==
    IF QuantityRejected(item.quantity) THEN "Invalid quantity"
    ELSE IF ~HasProduct(ps, item.productId) THEN "Product not found"
    ELSE IF StockRejected(item.quantity, ps[item.productId]) THEN "Insufficient stock"
    ELSE ""

\* the checks of one turn of the validation loop, in the handler's order;
\* "" when the line passes
LineError(item, ps) ==
    IF ~HasProduct(ps, item.productId) THEN "Product not found"
    ELSE IF QuantityRejected(item.quantity) THEN "Invalid quantity"
    ELSE IF StockRejected(item.quantity, ps[item.productId]) THEN "Insufficient stock"
    ELSE ""

\* stages with the inventory updated before the sale items are created
StepAfter_StockFirst(pc) ==
    CASE pc = "validating" -> "persistSale"
      [] pc = "persistSale" -> "applyStock"
      [] pc = "applyStock" -> "persistItems"
      [] pc = "persistItems" -> "respond"

\* the order of the handler's stages: validate, create the sale, create the
\* sale items, update the inventory, answer
StepAfter(pc) ==
    CASE pc = "validating" -> "persistSale"
      [] pc = "persistSale" -> "persistItems"
      [] pc = "persistItems" -> "applyStock"
      [] pc = "applyStock" -> "respond"

\* fault: the storage method whose rejection ended the request ("" if none),
\* faultLine: the cart line the handler was at when it rejected,
\* posts: the POST /api/sales requests sent for this checkout of the POS page,
\* client: what the POS page shows for it
IdleRequest ==
    [pc |-> "idle", actor |-> Anonymous, shape |-> "", total |-> 0, customerName |-> Absent,
     paymentMode |-> Absent, items |-> << >>, i |-> 0,
     checked |-> 0, saleId |-> 0, applied |-> 0,
     status |-> 0, message |-> "", fault |-> "", faultLine |-> 0,
     posts |-> 0, client |-> "cart", responses |-> 0, read |-> 0]

\* a return that leaves the request without an answer
Finish_Silent(q, status, message) ==
    [q EXCEPT !.pc = "done", !.i = 0, !.status = status, !.message = message]

\* res.status(status).json({message}); return
Finish(q, status, message) ==
    [q EXCEPT !.pc = "done", !.i = 0, !.status = status, !.message = message,
              !.responses = @ + 1]

\* leave a completed stage: enter the next one, or answer 201; a loop over
\* the items of a cart without lines is left at once
RECURSIVE Advance(_)
Advance(q) ==
    LET next == StepAfter(q.pc) IN
    IF next = "respond" THEN Finish(q, 201, "Created")
    ELSE IF next \in {"validating", "applyStock"} /\ q.items = << >>
         THEN Advance([q EXCEPT !.pc = next])
         ELSE [q EXCEPT !.pc = next, !.i = 1]

\* the storage method awaited in each stage
StorageCall(pc) ==
    CASE pc = "validating" -> "getProduct"
      [] pc = "persistSale" -> "createSale"
      [] pc = "persistItems" -> "createSaleItems"
      [] pc = "applyStock" -> "updateProduct"

\* a handler that logs the rejection and goes on with its next step
Abort_Continue(q) ==
    [(IF q.pc \in {"validating", "applyStock"} /\ q.i < Len(q.items)
      THEN [q EXCEPT !.i = q.i + 1]
      ELSE Advance(q))
     EXCEPT !.fault = StorageCall(q.pc), !.faultLine = q.i]

\* the inner catch block: an awaited storage call rejected, the handler
\* answers 400 "Invalid sale data" and returns
Abort(q) ==
    [Finish(q, 400, "Invalid sale data")
     EXCEPT !.fault = StorageCall(q.pc), !.faultLine = q.i]

Init ==
    /\ \E S \in SUBSET ProductIds : \E stock \in [S -> StockLevels] :
         products = [p \in S |-> [quantity |-> stock[p], price |-> ListPrice[p]]]
    /\ sales = << >>
    /\ saleItems = << >>
    /\ req = [r \in Requests |-> IdleRequest]
    /\ users = [u \in UserIds |-> [role |-> FirstRole[u]]]
    /\ gate = [calls |-> 0, route |-> "", actor |-> Anonymous, role |-> "",
               status |-> 0, listed |-> FALSE]
    /\ cart = << >>
    /\ view = [pc |-> "start", sales |-> {}, products |-> << >>]
    /\ edits = 0
    /\ initial = products

\* what a request body holds: a sale object and a list of items, or no sale
\* object, or no items, or items that are no list
Complete == "sale and items"
BodyShapes == {Complete, "no sale", "no items", "items no list"}

\* a format check that lets an empty list of items through
BodyFormatOk_AnyList(shape, items) == shape = Complete

\* !sale || !items || !Array.isArray(items) || items.length === 0
BodyFormatOk(shape, items) ==
    /\ shape # "no sale"
    /\ shape # "no items"
    /\ shape # "items no list"
    /\ items # << >>

\* an access check that lets everybody through
IsAuthenticated_Open(actor) == TRUE

\* req.isAuthenticated(): the request carries the session of a user
IsAuthenticated(actor) == actor # Anonymous

\* POST /api/sales up to its first await: authentication, body format, schema;
\* the requester is drawn from actors, the body's shape from shapes, the list
\* of items from carts and the sale's fields from names and modes
SubmitBody(r, actors, shapes, carts, names, modes) ==
    /\ req[r].pc = "idle"
    /\ r = "r1" \/ req["r1"].pc # "idle"
    /\ \E actor \in actors, shape \in shapes, total \in ClientTotals,
          items \in carts, name \in names, mode \in modes :
         req' = [req EXCEPT ![r] =
           LET sent == [@ EXCEPT !.posts = @ + 1, !.client = "processing",
                                 !.actor = actor] IN
           IF ~IsAuthenticated(actor) THEN Finish(sent, 401, "Unauthorized")
           ELSE LET list == IF shape \in {"no items", "items no list"}
                            THEN << >> ELSE items
                    q == IF shape = "no sale"
                         THEN [sent EXCEPT !.shape = shape, !.items = list]
                         ELSE [sent EXCEPT !.shape = shape, !.items = list,
                                           !.total = total,
                                           !.customerName = name,
                                           !.paymentMode = mode]
                IN
                IF ~BodyFormatOk(shape, list)
                THEN Finish(q, 400, "Invalid sale data format")
                ELSE IF ~insertSaleSchemaOk([total |-> total])
                     THEN Finish(q, 400, "Invalid sale data")
                     ELSE IF list = << >>
                          THEN Advance([q EXCEPT !.pc = "validating"])
                          ELSE [q EXCEPT !.pc = "validating", !.i = 1]]
    /\ UNCHANGED <<products, sales, saleItems, users, edits, view, gate, cart, initial>>

\* a body with a sale object and a list of items, sent by a seller or by
\* nobody logged in
SubmitSale(r, carts, names, modes) ==
    SubmitBody(r, SomeRequesters, {Complete}, carts, names, modes)

\* a body whose sale carries a total only
SubmitCart(r, carts) == SubmitSale(r, carts, {Absent}, {Absent})

Submit(r) == SubmitCart(r, Carts)

\* a body whose sale carries any customer name and payment mode
SubmitHeader(r) == SubmitSale(r, Carts, CustomerNames, PaymentModes)

\* a second checkout with the cart of the first
SubmitAgain(r) ==
    /\ r # "r1"
    /\ req["r1"].items # << >>
    /\ SubmitCart(r, {req["r1"].items})

\* a second checkout with a one-line cart, racing with the first
SubmitRival(r) == r # "r1" /\ SubmitCart(r, RivalCarts)

\* a validation loop that sets the quantity of a passing line aside as it goes
ValidateLine_Reserving(r) ==
    /\ req[r].pc = "validating"
    /\ LET q == req[r]
           error == LineError(q.items[q.i], products)
       IN /\ req' = [req EXCEPT ![r] =
               IF error # "" THEN Finish(q, 400, error)
               ELSE IF q.i < Len(q.items)
                 THEN [q EXCEPT !.i = q.i + 1, !.checked = q.i]
                 ELSE Advance([q EXCEPT !.checked = q.i])]
          /\ products' = IF error # "" THEN products
                         ELSE IncQuantity(products, q.items[q.i].productId,
                                          -q.items[q.i].quantity)
    /\ UNCHANGED <<sales, saleItems, users, edits, view, gate, cart, initial>>

\* one turn of the validation loop: await getProduct, then the checks
ValidateLine(r) ==
    /\ req[r].pc = "validating"
    /\ LET q == req[r]
           error == LineError(q.items[q.i], products)
       IN req' = [req EXCEPT ![r] =
            IF error # "" THEN Finish(q, 400, error)
            ELSE IF q.i < Len(q.items)
              THEN [q EXCEPT !.i = q.i + 1, !.checked = q.i]
              ELSE Advance([q EXCEPT !.checked = q.i])]
    /\ UNCHANGED <<products, sales, saleItems, users, edits, view, gate, cart, initial>>

\* await storage.createSale(validatedSale)
PersistSale(r) ==
    /\ req[r].pc = "persistSale"
    /\ sales' = InsertSale(sales,
                  insertSaleSchemaParse([total |-> req[r].total,
                                         customerName |-> req[r].customerName,
                                         paymentMode |-> req[r].paymentMode]))
    /\ req' = [req EXCEPT ![r] = Advance([@ EXCEPT !.saleId = Len(sales) + 1])]
    /\ UNCHANGED <<products, saleItems, users, edits, view, gate, cart, initial>>

\* await storage.createSaleItems(createdSale._id, saleItems)
PersistItems(r) ==
    /\ req[r].pc = "persistItems"
    /\ saleItems' = InsertSaleItems(saleItems, req[r].saleId, req[r].items)
    /\ req' = [req EXCEPT ![r] = Advance(@)]
    /\ UNCHANGED <<products, sales, users, edits, view, gate, cart, initial>>

\* one turn of the inventory loop: await storage.updateProduct(id, {$inc: ...})
ApplyStock(r) ==
    /\ req[r].pc = "applyStock"
    /\ LET q == req[r]
           item == q.items[q.i]
       IN /\ products' = IncQuantity(products, item.productId, -item.quantity)
          /\ req' = [req EXCEPT ![r] =
               IF q.i < Len(q.items)
               THEN [q EXCEPT !.i = q.i + 1, !.applied = q.i]
               ELSE Advance([q EXCEPT !.applied = q.i])]
    /\ UNCHANGED <<sales, saleItems, users, edits, view, gate, cart, initial>>

\* a failing inventory update that also puts back what the request had
\* subtracted for its earlier lines
StorageFails_Compensating(r) ==
    /\ req[r].pc \in {"validating", "persistSale", "persistItems", "applyStock"}
    /\ req' = [req EXCEPT ![r] = Abort(@)]
    /\ products' = [p \in DOMAIN products |->
                      [products[p] EXCEPT !.quantity = @ + AppliedBy(req[r], p)]]
    /\ UNCHANGED <<sales, saleItems, users, edits, view, gate, cart, initial>>

\* the storage call awaited by r rejects (the store is unreachable, a document
\* fails the store's schema): it writes nothing and the handler's catch runs
StorageFails(r) ==
    /\ req[r].pc \in {"validating", "persistSale", "persistItems", "applyStock"}
    /\ req' = [req EXCEPT ![r] = Abort(@)]
    /\ UNCHANGED <<products, sales, saleItems, users, edits, view, gate, cart, initial>>

----------------------------------------------------------------------------
(* A reader: the sales list, then the product list *)

\* GET /api/sales: storage.getSales(), the Sales in the store
ReadSales ==
    /\ view.pc = "start"
    /\ view' = [view EXCEPT !.pc = "sales",
                            !.sales = {sales[k].id : k \in 1..Len(sales)}]
    /\ UNCHANGED <<products, sales, saleItems, req, users, edits, gate, cart, initial>>

\* GET /api/products: storage.getProducts(), the Products in the store
ReadProducts ==
    /\ view.pc = "sales"
    /\ view' = [view EXCEPT !.pc = "products", !.products = products]
    /\ UNCHANGED <<products, sales, saleItems, req, users, edits, gate, cart, initial>>

----------------------------------------------------------------------------
(* The POS page *)

\* times the query client sends a failed mutation again
MutationRetries == 0

\* the mutation sends the request again: the handler restarts on the same body
Resend(q) ==
    [q EXCEPT !.pc = "validating", !.i = 1, !.posts = @ + 1,
              !.status = 0, !.message = "", !.responses = 0]

\* an onError that submits the sale once more
ClientSettle_Retry(r) ==
    /\ req[r].pc = "done"
    /\ req[r].client = "processing"
    /\ req' = [req EXCEPT ![r] =
         IF @.status = 201 THEN [@ EXCEPT !.client = "success"]
         ELSE IF @.posts <= 1 /\ @.status = 400 /\ @.items # << >> /\ @.total >= 0
              THEN Resend(@)
              ELSE [@ EXCEPT !.client = "error"]]
    /\ UNCHANGED <<products, sales, saleItems, users, edits, view, gate, cart, initial>>

\* createSaleMutation settles with the answer of its request: onSuccess
\* clears the cart, onError shows the error, and handleCheckout returns; the
\* request is sent again only as often as the query client retries mutations
ClientSettle(r) ==
    /\ req[r].pc = "done"
    /\ req[r].client = "processing"
    /\ req' = [req EXCEPT ![r] =
         IF @.status = 201 THEN [@ EXCEPT !.client = "success"]
         ELSE IF @.posts <= MutationRetries /\ @.status = 400
                 /\ @.items # << >> /\ @.total >= 0
              THEN Resend(@)
              ELSE [@ EXCEPT !.client = "error"]]
    /\ UNCHANGED <<products, sales, saleItems, users, edits, view, gate, cart, initial>>

----------------------------------------------------------------------------
(* Catalog requests of an administrator *)

CreateProduct ==
    /\ edits < MaxEdits
    /\ \E p \in ProductIds \ DOMAIN products, q \in StockLevels :
         products' = InsertProduct(products, p, q)
    /\ edits' = edits + 1
    /\ UNCHANGED <<sales, saleItems, req, users, view, gate, cart, initial>>

PatchProduct ==
    /\ edits < MaxEdits
    /\ \E p \in ProductIds, q \in PatchQuantities :
         products' = SetQuantity(products, p, q)
    /\ edits' = edits + 1
    /\ UNCHANGED <<sales, saleItems, req, users, view, gate, cart, initial>>

\* a delete that also removes the Sales that sold the product
DeleteProduct_Cascade ==
    /\ edits < MaxEdits
    /\ \E p \in ProductIds :
         /\ products' = RemoveProduct(products, p)
         /\ sales' = SelectSeq(sales, LAMBDA sale :
                        \A k \in 1..Len(saleItems) :
                            saleItems[k].saleId = sale.id
                            => saleItems[k].productId # p)
    /\ edits' = edits + 1
    /\ UNCHANGED <<saleItems, req, users, view, gate, cart, initial>>

\* a delete that also removes the SaleItems that refer to the product
DeleteProduct_CascadeItems ==
    /\ edits < MaxEdits
    /\ \E p \in ProductIds :
         /\ products' = RemoveProduct(products, p)
         /\ saleItems' = SelectSeq(saleItems, LAMBDA it : it.productId # p)
    /\ edits' = edits + 1
    /\ UNCHANGED <<sales, req, users, view, gate, cart, initial>>

\* DELETE /api/products/:id as an administrator: storage.deleteProduct(id)
DeleteProduct ==
    /\ edits < MaxEdits
    /\ \E p \in ProductIds : products' = RemoveProduct(products, p)
    /\ edits' = edits + 1
    /\ UNCHANGED <<sales, saleItems, req, users, view, gate, cart, initial>>

\* PATCH /api/users/:id/role
PatchUserRole ==
    /\ edits < MaxEdits
    /\ \E u \in UserIds : \E role \in Roles \ {users[u].role} :
         users' = SetRole(users, u, role)
    /\ edits' = edits + 1
    /\ UNCHANGED <<products, sales, saleItems, req, view, gate, cart, initial>>

\* PATCH /api/products/:id with a body carrying a price
PatchPrice ==
    /\ edits < MaxEdits
    /\ \E p \in ProductIds, price \in PatchPrices :
         products' = SetPrice(products, p, price)
    /\ edits' = edits + 1
    /\ UNCHANGED <<sales, saleItems, req, users, view, gate, cart, initial>>

----------------------------------------------------------------------------
(* The earlier POST /api/sales: storage.createSale(sale, items) *)

\* insertSaleItemSchema.parse(item): quantity at least 1, price at least 0
\* (the lines are sent with a saleId, which createSale overwrites)
insertSaleItemSchemaOk(item) == item.quantity >= 2 /\ item.price >= 0

\* the next turn of createSale's loop, or its return and the route's 201
LegacyNext(q) ==
    IF q.i < Len(q.items)
    THEN [q EXCEPT !.pc = "legacyItem", !.i = q.i + 1]
    ELSE Finish(q, 201, "Created")

\* the route up to its await: authentication, then the two schemas, whose
\* ZodError leaves the handler with no response sent by it
LegacySubmit(r, carts) ==
    /\ req[r].pc = "idle"
    /\ r = "r1" \/ req["r1"].pc # "idle"
    /\ \E actor \in SomeRequesters, total \in ClientTotals, items \in carts :
         req' = [req EXCEPT ![r] =
           LET sent == [@ EXCEPT !.posts = @ + 1, !.client = "processing",
                                 !.actor = actor] IN
           IF ~IsAuthenticated(actor) THEN Finish(sent, 401, "Unauthorized")
           ELSE LET q == [sent EXCEPT !.shape = Complete, !.total = total,
                                      !.items = items] IN
                IF \/ ~insertSaleSchemaOk([total |-> total])
                   \/ \E k \in 1..Len(items) : ~insertSaleItemSchemaOk(items[k])
                THEN [q EXCEPT !.pc = "done", !.message = "ZodError"]
                ELSE [q EXCEPT !.pc = "legacySale"]]
    /\ UNCHANGED <<products, sales, saleItems, users, edits, view, gate, cart, initial>>

\* const newSale = await Sale.create(sale)
LegacyCreateSale(r) ==
    /\ req[r].pc = "legacySale"
    /\ sales' = InsertSale(sales,
                  insertSaleSchemaParse([total |-> req[r].total,
                                         customerName |-> req[r].customerName]))
    /\ req' = [req EXCEPT ![r] =
         LegacyNext([@ EXCEPT !.saleId = Len(sales) + 1, !.i = 0])]
    /\ UNCHANGED <<products, saleItems, users, edits, view, gate, cart, initial>>

\* await SaleItem.create({...item, saleId: newSale._id})
LegacyCreateItem(r) ==
    /\ req[r].pc = "legacyItem"
    /\ saleItems' = InsertSaleItems(saleItems, req[r].saleId,
                                    <<req[r].items[req[r].i]>>)
    /\ req' = [req EXCEPT ![r].pc = "legacyRead"]
    /\ UNCHANGED <<products, sales, users, edits, view, gate, cart, initial>>

\* const product = await Product.findById(item.productId); if (product) ...
LegacyRead(r) ==
    /\ req[r].pc = "legacyRead"
    /\ LET q == req[r]
           id == q.items[q.i].productId
       IN req' = [req EXCEPT ![r] =
            IF HasProduct(products, id)
            THEN [q EXCEPT !.pc = "legacyWrite", !.read = products[id].quantity]
            ELSE LegacyNext(q)]
    /\ UNCHANGED <<products, sales, saleItems, users, edits, view, gate, cart, initial>>

\* await Product.findByIdAndUpdate(product._id,
\*         {quantity: product.quantity - item.quantity})
LegacyWrite(r) ==
    /\ req[r].pc = "legacyWrite"
    /\ LET q == req[r]
           item == q.items[q.i]
       IN /\ products' = SetQuantity(products, item.productId,
                                     q.read - item.quantity)
          /\ req' = [req EXCEPT ![r] = LegacyNext([q EXCEPT !.applied = q.i])]
    /\ UNCHANGED <<sales, saleItems, users, edits, view, gate, cart, initial>>

----------------------------------------------------------------------------
(* The administrator routes behind their access check *)

\* whoever may send a request: nobody logged in, or one of the users
Requesters == {Anonymous} \cup UserIds

\* req.user.role of a request sent by actor with a session of the given role
SessionRole(actor, role) == IF actor = Anonymous THEN "" ELSE role

\* an access check that asks for a session only
requireAdmin_AnyUser(actor, role) ==
    IF ~IsAuthenticated(actor) THEN 401 ELSE 0

\* requireAdmin: the status it answers, or 0 when it calls next()
requireAdmin(actor, role) ==
    IF ~IsAuthenticated(actor) THEN 401
    ELSE IF role # "admin" THEN 403
         ELSE 0

\* a request to a route registered with requireAdmin whose handler would leave
\* the products ps and the users us, and answer the user list if listed
AdminRoute(route, actor, role, ps, us, listed) ==
    /\ gate.calls < MaxCalls
    /\ LET refused == requireAdmin(actor, SessionRole(actor, role)) IN
         /\ gate' = [calls |-> gate.calls + 1, route |-> route,
                     actor |-> actor, role |-> SessionRole(actor, role),
                     status |-> refused, listed |-> listed /\ refused = 0]
         /\ products' = IF refused = 0 THEN ps ELSE products
         /\ users' = IF refused = 0 THEN us ELSE users
    /\ UNCHANGED <<sales, saleItems, req, edits, view, cart, initial>>

\* POST /api/products
PostProduct ==
    \E actor \in Requesters, sr \in Roles, p \in ProductIds \ DOMAIN products, q \in StockLevels :
        AdminRoute("POST /api/products", actor, sr,
                   InsertProduct(products, p, q), users, FALSE)

\* PATCH /api/products/:id
PatchProductRoute ==
    \E actor \in Requesters, sr \in Roles, p \in ProductIds, q \in PatchQuantities :
        AdminRoute("PATCH /api/products/:id", actor, sr,
                   SetQuantity(products, p, q), users, FALSE)

\* DELETE /api/products/:id
DeleteProductRoute ==
    \E actor \in Requesters, sr \in Roles, p \in ProductIds :
        AdminRoute("DELETE /api/products/:id", actor, sr,
                   RemoveProduct(products, p), users, FALSE)

\* GET /api/users
GetUsers ==
    \E actor \in Requesters, sr \in Roles :
        AdminRoute("GET /api/users", actor, sr, products, users, TRUE)

\* PATCH /api/users/:id/role with a role of the enumeration
PatchRoleRoute ==
    \E actor \in Requesters, sr \in Roles, u \in UserIds, role \in Roles :
        AdminRoute("PATCH /api/users/:id/role", actor, sr,
                   products, SetRole(users, u, role), FALSE)

\* a GET whose handler answers 401 to a request without a session and the
\* list otherwise
GatedRead(route, actor) ==
    /\ gate.calls < MaxCalls
    /\ gate' = [calls |-> gate.calls + 1, route |-> route, actor |-> actor,
                role |-> IF actor = Anonymous THEN "" ELSE users[actor].role,
                status |-> IF IsAuthenticated(actor) THEN 200 ELSE 401,
                listed |-> IsAuthenticated(actor)]
    /\ UNCHANGED <<products, sales, saleItems, req, users, edits, view, cart, initial>>

\* GET /api/products
GetProducts == \E actor \in Requesters : GatedRead("GET /api/products", actor)

\* GET /api/sales
GetSales == \E actor \in Requesters : GatedRead("GET /api/sales", actor)

----------------------------------------------------------------------------
(* The cart of the POS page.  An entry holds the product as the page had
   loaded it when the entry was made (stock, in half units) and a quantity
   in whole units. *)

InCart(c, id) == \E k \in 1..Len(c) : c[k].productId = id

\* addToCart: one more of an entry that is there, or a new entry of 1
addToCart(c, id, stock) ==
    IF InCart(c, id)
    THEN [k \in 1..Len(c) |->
            IF c[k].productId = id
            THEN [c[k] EXCEPT !.quantity = @ + 1]
            ELSE c[k]]
    ELSE Append(c, [productId |-> id, stock |-> stock, quantity |-> 1])

\* incrementQuantity: one more unless the entry is at its product's stock
incrementQuantity(c, id) ==
    [k \in 1..Len(c) |->
        IF c[k].productId = id /\ ~(2 * c[k].quantity >= c[k].stock)
        THEN [c[k] EXCEPT !.quantity = @ + 1]
        ELSE c[k]]

\* a decrement that keeps an entry whose quantity has come to 0
decrementQuantity_Keep(c, id) ==
    [k \in 1..Len(c) |->
        IF c[k].productId = id
        THEN [c[k] EXCEPT !.quantity = @ - 1]
        ELSE c[k]]

\* decrementQuantity: one less, and the entry is dropped when that is 0
decrementQuantity(c, id) ==
    LET kept == SelectSeq(c, LAMBDA item :
                    ~(item.productId = id /\ item.quantity - 1 = 0))
    IN [k \in 1..Len(kept) |->
          IF kept[k].productId = id
          THEN [kept[k] EXCEPT !.quantity = @ - 1]
          ELSE kept[k]]

\* removeFromCart
removeFromCart(c, id) == SelectSeq(c, LAMBDA item : item.productId # id)

\* a click on the card of a product of the list: handleProductCardClick
\* turns away a product without id or with a price that is not positive,
\* and adds any other
HandleProductCardClick(p) ==
    /\ p \in DOMAIN products
    /\ products[p].price > 0
    /\ \A k \in 1..Len(cart) :
         cart[k].productId = p => cart[k].quantity < MaxCartQuantity
    /\ cart' = addToCart(cart, p, products[p].quantity)
    /\ UNCHANGED <<products, sales, saleItems, req, users, edits, view, gate, initial>>

\* the + button of a cart row
IncrementQuantity(p) ==
    /\ InCart(cart, p)
    /\ cart' = incrementQuantity(cart, p)
    /\ UNCHANGED <<products, sales, saleItems, req, users, edits, view, gate, initial>>

\* the - button of a cart row
DecrementQuantity(p) ==
    /\ InCart(cart, p)
    /\ cart' = decrementQuantity(cart, p)
    /\ UNCHANGED <<products, sales, saleItems, req, users, edits, view, gate, initial>>

\* the remove button of a cart row
RemoveFromCart(p) ==
    /\ InCart(cart, p)
    /\ cart' = removeFromCart(cart, p)
    /\ UNCHANGED <<products, sales, saleItems, req, users, edits, view, gate, initial>>

Next ==
    \/ \E r \in Requests : Submit(r)
    \/ \E r \in Requests : ValidateLine(r)
    \/ \E r \in Requests : PersistSale(r)
    \/ \E r \in Requests : PersistItems(r)
    \/ \E r \in Requests : ApplyStock(r)
    \/ CreateProduct
    \/ PatchProduct
    \/ DeleteProduct

Spec == Init /\ [][Next]_vars

\* Checkouts alone: one checkout with any cart and a rival with a one-line
\* cart, in every interleaving, and no catalog request
NextRace ==
    \/ Submit("r1")
    \/ \E r \in Requests : SubmitRival(r)
    \/ \E r \in Requests : ValidateLine(r)
    \/ \E r \in Requests : PersistSale(r)
    \/ \E r \in Requests : PersistItems(r)
    \/ \E r \in Requests : ApplyStock(r)

SpecRace == Init /\ [][NextRace]_vars

\* Checkouts over a store whose operations may fail
NextFault ==
    \/ Submit("r1")
    \/ \E r \in Requests : SubmitRival(r)
    \/ \E r \in Requests : ValidateLine(r)
    \/ \E r \in Requests : PersistSale(r)
    \/ \E r \in Requests : PersistItems(r)
    \/ \E r \in Requests : ApplyStock(r)
    \/ \E r \in Requests : StorageFails(r)

SpecFault == Init /\ [][NextFault]_vars

\* Checkouts sent by the POS page over a store whose operations may fail
NextClient ==
    \/ Submit("r1")
    \/ \E r \in Requests : SubmitRival(r)
    \/ \E r \in Requests : ValidateLine(r)
    \/ \E r \in Requests : PersistSale(r)
    \/ \E r \in Requests : PersistItems(r)
    \/ \E r \in Requests : ApplyStock(r)
    \/ \E r \in Requests : StorageFails(r)
    \/ \E r \in Requests : ClientSettle(r)

SpecClient == Init /\ [][NextClient]_vars

\* One checkout, over a store whose operations may fail, and a reader
NextRead ==
    \/ Submit("r1")
    \/ \E r \in Requests : ValidateLine(r)
    \/ \E r \in Requests : PersistSale(r)
    \/ \E r \in Requests : PersistItems(r)
    \/ \E r \in Requests : ApplyStock(r)
    \/ \E r \in Requests : StorageFails(r)
    \/ ReadSales
    \/ ReadProducts

SpecRead == Init /\ [][NextRead]_vars

\* The same cart checked out twice, in every interleaving
NextAgain ==
    \/ Submit("r1")
    \/ \E r \in Requests : SubmitAgain(r)
    \/ \E r \in Requests : ValidateLine(r)
    \/ \E r \in Requests : PersistSale(r)
    \/ \E r \in Requests : PersistItems(r)
    \/ \E r \in Requests : ApplyStock(r)

SpecAgain == Init /\ [][NextAgain]_vars

\* Checkouts whose sale header carries a customer name and a payment mode
NextHeader ==
    \/ SubmitHeader("r1")
    \/ \E r \in Requests : SubmitRival(r)
    \/ \E r \in Requests : ValidateLine(r)
    \/ \E r \in Requests : PersistSale(r)
    \/ \E r \in Requests : PersistItems(r)
    \/ \E r \in Requests : ApplyStock(r)

SpecHeader == Init /\ [][NextHeader]_vars

\* One checkout among the requests of an administrator: product create,
\* update and delete, and user role changes
NextAdmin ==
    \/ SubmitSale("r1", Carts, {"Ann"}, {"Card"})
    \/ \E r \in Requests : ValidateLine(r)
    \/ \E r \in Requests : PersistSale(r)
    \/ \E r \in Requests : PersistItems(r)
    \/ \E r \in Requests : ApplyStock(r)
    \/ CreateProduct
    \/ PatchProduct
    \/ PatchPrice
    \/ DeleteProduct
    \/ PatchUserRole

SpecAdmin == Init /\ [][NextAdmin]_vars

\* one step of the handler of r: the storage call it awaits returns, with a
\* value or with a rejection
HandlerStep(r) ==
    \/ ValidateLine(r)
    \/ PersistSale(r)
    \/ PersistItems(r)
    \/ ApplyStock(r)
    \/ StorageFails(r)

\* A checkout over a store each of whose calls returns, while an
\* administrator deletes products
NextLive ==
    \/ Submit("r1")
    \/ \E r \in Requests : HandlerStep(r)
    \/ DeleteProduct

SpecLive ==
    /\ Init
    /\ [][NextLive]_vars
    /\ \A r \in Requests : WF_vars(HandlerStep(r))

\* Two requests to the earlier route, in every interleaving
NextLegacy ==
    \/ LegacySubmit("r1", Carts)
    \/ \E r \in Requests \ {"r1"} : LegacySubmit(r, RivalCarts)
    \/ \E r \in Requests : LegacyCreateSale(r)
    \/ \E r \in Requests : LegacyCreateItem(r)
    \/ \E r \in Requests : LegacyRead(r)
    \/ \E r \in Requests : LegacyWrite(r)

SpecLegacy == Init /\ [][NextLegacy]_vars

\* Checkouts with bodies of every shape
NextBody ==
    \/ SubmitBody("r1", SomeRequesters, BodyShapes, Carts, {Absent}, {Absent})
    \/ \E r \in Requests \ {"r1"} :
         SubmitBody(r, SomeRequesters, BodyShapes, RivalCarts, {Absent}, {Absent})
    \/ \E r \in Requests : ValidateLine(r)
    \/ \E r \in Requests : PersistSale(r)
    \/ \E r \in Requests : PersistItems(r)
    \/ \E r \in Requests : ApplyStock(r)

SpecBody == Init /\ [][NextBody]_vars

\* A checkout and reads of the lists, by anybody
NextAuth ==
    \/ SubmitBody("r1", Requesters, {Complete}, Carts, {Absent}, {Absent})
    \/ \E r \in Requests : ValidateLine(r)
    \/ \E r \in Requests : PersistSale(r)
    \/ \E r \in Requests : PersistItems(r)
    \/ \E r \in Requests : ApplyStock(r)
    \/ GetProducts
    \/ GetSales

SpecAuth == Init /\ [][NextAuth]_vars

\* The seller edits the cart of the POS page, while an administrator
\* changes the stock of products and the page loads the list again
NextCart ==
    \/ \E p \in ProductIds : HandleProductCardClick(p)
    \/ \E p \in ProductIds : IncrementQuantity(p)
    \/ \E p \in ProductIds : DecrementQuantity(p)
    \/ \E p \in ProductIds : RemoveFromCart(p)
    \/ PatchProduct

SpecCart == Init /\ [][NextCart]_vars

\* Requests of anybody to the administrator routes
NextGate ==
    \/ PostProduct
    \/ PatchProductRoute
    \/ DeleteProductRoute
    \/ GetUsers
    \/ PatchRoleRoute

SpecGate == Init /\ [][NextGate]_vars

\* Checkouts while an administrator edits prices
NextPrice ==
    \/ Submit("r1")
    \/ \E r \in Requests : SubmitRival(r)
    \/ \E r \in Requests : ValidateLine(r)
    \/ \E r \in Requests : PersistSale(r)
    \/ \E r \in Requests : PersistItems(r)
    \/ \E r \in Requests : ApplyStock(r)
    \/ PatchPrice

SpecPrice == Init /\ [][NextPrice]_vars

----------------------------------------------------------------------------
(* Vocabulary of the properties *)

Done(r) == req[r].pc = "done"

\* r is the only thing that has happened since the start: no other request
\* was submitted and no catalog request was served
OnlyActivity(r) ==
    /\ edits = 0
    /\ \A o \in Requests \ {r} : req[o].pc = "idle"

\* an authenticated request with at least one line whose header passed the schema
WellFormed(r) ==
    /\ req[r].shape = Complete
    /\ req[r].items # << >>
    /\ req[r].total >= 0

Missing(line, ps) == line.productId \notin DOMAIN ps

Short(line, ps) ==
    /\ line.productId \in DOMAIN ps
    /\ line.quantity > ps[line.productId].quantity

LineValid(line, ps) ==
    /\ line.productId \in DOMAIN ps
    /\ line.quantity > 0
    /\ line.quantity <= ps[line.productId].quantity

ValidBefore(items, k, ps) == \A j \in 1..(k - 1) : LineValid(items[j], ps)

StoreUntouched ==
    /\ products = initial
    /\ sales = << >>
    /\ saleItems = << >>

ItemsOf(saleId) == {k \in 1..Len(saleItems) : saleItems[k].saleId = saleId}

\* quantity of product p that the inventory loop of r has subtracted so far
AppliedTo(r, p) == AppliedBy(req[r], p)

RECURSIVE SumApplied(_, _)
SumApplied(rs, p) ==
    IF rs = {} THEN 0
    ELSE LET r == CHOOSE x \in rs : TRUE
         IN AppliedTo(r, p) + SumApplied(rs \ {r}, p)

----------------------------------------------------------------------------
(* C1 *)

----------------------------------------------------------------------------
(* C2 *)

\* C2: a product holds one unit and two checkouts each ask one unit of it;
\* once both have ended, exactly one was answered 201, the other failed with
\* insufficient stock, and the product's quantity is 0.  (Stated for every
\* order of their steps: a run in which one ends before the other starts
\* satisfies it, so a violation is an overlapping run.)
C2_LastUnitSoldOnce ==
    \A p \in ProductIds :
        LET one == << [productId |-> p, quantity |-> 2, price |-> ListPrice[p]] >>
        IN ( /\ edits = 0
             /\ p \in DOMAIN initial
             /\ initial[p].quantity = 2
             /\ \A r \in Requests :
                  Done(r) /\ req[r].items = one /\ req[r].total >= 0 )
           => /\ \E r \in Requests :
                   /\ req[r].status = 201
                   /\ \A o \in Requests \ {r} :
                        /\ req[o].status = 400
                        /\ req[o].message = "Insufficient stock"
              /\ products[p].quantity = 0

----------------------------------------------------------------------------
(* C3 *)

\* C3: every product's quantity on hand is at least 0, in every reachable state.
C3_StockNeverNegative ==
    \A p \in DOMAIN products : products[p].quantity >= 0

----------------------------------------------------------------------------
(* C4 *)

\* C4, as stated: a checkout whose cart holds a line asking more than the
\* product's stock fails with the insufficient-stock error and writes nothing,
\* wherever the line stands in the cart.
C4_AsStated ==
    \A r \in Requests :
        ( /\ Done(r) /\ OnlyActivity(r) /\ WellFormed(r)
          /\ \E k \in 1..Len(req[r].items) : Short(req[r].items[k], initial) )
        => /\ req[r].status = 400
           /\ req[r].message = "Insufficient stock"
           /\ StoreUntouched

\* C4, amended: such a checkout fails with status 400 and writes nothing,
\* wherever the line stands; the error is the one of the first line of the
\* cart that fails a check, so it is the insufficient-stock error when every
\* line before the short one is valid.  Under any interleaving a checkout that
\* failed with insufficient stock has written no Sale, SaleItem or stock.
C4_ShortLineRejected ==
    /\ \A r \in Requests :
         ( /\ Done(r) /\ OnlyActivity(r) /\ WellFormed(r)
           /\ \E k \in 1..Len(req[r].items) : Short(req[r].items[k], initial) )
         => /\ req[r].status = 400
            /\ StoreUntouched
            /\ ( (\E k \in 1..Len(req[r].items) :
                     /\ Short(req[r].items[k], initial)
                     /\ ValidBefore(req[r].items, k, initial))
                 => req[r].message = "Insufficient stock" )
    /\ \A r \in Requests :
         req[r].message = "Insufficient stock"
         => /\ req[r].status = 400
            /\ req[r].saleId = 0
            /\ req[r].applied = 0
            /\ ItemsOf(req[r].saleId) = {}

\* the short line is the second of the cart, after a valid one
C4_Witness ==
    \E r \in Requests :
        /\ Done(r) /\ OnlyActivity(r) /\ WellFormed(r)
        /\ Len(req[r].items) = 2
        /\ LineValid(req[r].items[1], initial)
        /\ Short(req[r].items[2], initial)
        /\ req[r].message = "Insufficient stock"

----------------------------------------------------------------------------
(* C5 *)

\* C5, as stated: a checkout whose cart names a product that does not exist
\* fails with the product-not-found error and writes nothing, wherever the
\* line stands in the cart.
C5_AsStated ==
    \A r \in Requests :
        ( /\ Done(r) /\ OnlyActivity(r) /\ WellFormed(r)
          /\ \E k \in 1..Len(req[r].items) : Missing(req[r].items[k], initial) )
        => /\ req[r].status = 400
           /\ req[r].message = "Product not found"
           /\ StoreUntouched

\* C5, amended: such a checkout fails with status 400 and writes nothing,
\* wherever the line stands; the error is the one of the first line of the
\* cart that fails a check, so it is the product-not-found error when every
\* line before the one naming the missing product is valid.  Under any
\* interleaving a checkout that failed with product not found has written no
\* Sale, SaleItem or stock.
C5_MissingProductRejected ==
    /\ \A r \in Requests :
         ( /\ Done(r) /\ OnlyActivity(r) /\ WellFormed(r)
           /\ \E k \in 1..Len(req[r].items) : Missing(req[r].items[k], initial) )
         => /\ req[r].status = 400
            /\ StoreUntouched
            /\ ( (\E k \in 1..Len(req[r].items) :
                     /\ Missing(req[r].items[k], initial)
                     /\ ValidBefore(req[r].items, k, initial))
                 => req[r].message = "Product not found" )
    /\ \A r \in Requests :
         req[r].message = "Product not found"
         => /\ req[r].status = 400
            /\ req[r].saleId = 0
            /\ req[r].applied = 0
            /\ ItemsOf(req[r].saleId) = {}

\* the line naming the missing product is the second, after a valid one
C5_Witness ==
    \E r \in Requests :
        /\ Done(r) /\ OnlyActivity(r) /\ WellFormed(r)
        /\ Len(req[r].items) = 2
        /\ LineValid(req[r].items[1], initial)
        /\ Missing(req[r].items[2], initial)
        /\ req[r].message = "Product not found"

----------------------------------------------------------------------------
(* C6 *)

\* C6: the total stored on every Sale a checkout persisted is the sum over the
\* cart's lines of unit price times quantity, to the minor currency unit,
\* whatever total the client sent.
C6_TotalRecomputed ==
    \A r \in Requests :
        req[r].saleId # 0
        => sales[req[r].saleId].total = CartTotal(req[r].items)

----------------------------------------------------------------------------
(* C7 *)

\* C7: a checkout with a line whose quantity is not a positive integer fails
\* with the invalid-quantity error before anything is written.  (Stated for
\* the case that leaves no other reason to fail: the checkout runs alone,
\* the offending line names an existing product and asks no more than its
\* stock, and every other line is valid.)
C7_NonPositiveIntegerRejected ==
    \A r \in Requests :
        ( /\ Done(r) /\ OnlyActivity(r) /\ WellFormed(r)
          /\ \E k \in 1..Len(req[r].items) :
                LET line == req[r].items[k] IN
                /\ line.quantity <= 0 \/ ~IsInteger(line.quantity)
                /\ line.productId \in DOMAIN initial
                /\ line.quantity <= initial[line.productId].quantity
                /\ \A j \in 1..Len(req[r].items) \ {k} :
                     LineValid(req[r].items[j], initial) )
        => /\ req[r].status = 400
           /\ req[r].message = "Invalid quantity"
           /\ StoreUntouched

----------------------------------------------------------------------------
(* C8 *)

\* C8: at the inventory step a decrement larger than the product's current
\* quantity does not take effect: the quantity stays as it is and the
\* checkout fails with insufficient stock.
C8_OversizedDecrementRefused ==
    [][ \A r \in Requests :
          ( /\ req[r].pc = "applyStock"
            /\ req'[r] # req[r]
            /\ Short(req[r].items[req[r].i], products) )
          => /\ products' = products
             /\ req'[r].message = "Insufficient stock" ]_vars

----------------------------------------------------------------------------
(* C9 *)

\* C9: decrements on one product are atomic with respect to each other: as
\* long as no catalog request has touched the collection, a product's
\* quantity is its initial quantity minus the sum of all the decrements the
\* checkouts have applied to it, however their steps interleave.
C9_DecrementsAllCount ==
    edits = 0
    => /\ DOMAIN products = DOMAIN initial
       /\ \A p \in DOMAIN initial :
            products[p].quantity = initial[p].quantity - SumApplied(Requests, p)

\* both checkouts validated against the same stock and both then subtracted
\* from the same product
C9_Witness ==
    /\ edits = 0
    /\ \E p \in DOMAIN products :
         /\ \A r \in Requests : AppliedTo(r, p) > 0
         /\ products[p].quantity < 0

----------------------------------------------------------------------------
(* C10 *)

\* C10: within one checkout the Sale is persisted after every line has been
\* validated and before any of its SaleItems, and all its SaleItems are
\* persisted before its first stock decrement.
C10_WritesInOrder ==
    \A r \in Requests :
        /\ req[r].saleId # 0
           => /\ req[r].checked = Len(req[r].items)
              /\ req[r].saleId \in 1..Len(sales)
        /\ req[r].saleId = 0 => req[r].applied = 0
        /\ req[r].saleId # 0 /\ ItemsOf(req[r].saleId) # {}
           => Cardinality(ItemsOf(req[r].saleId)) = Len(req[r].items)
        /\ req[r].applied > 0
           => Cardinality(ItemsOf(req[r].saleId)) = Len(req[r].items)

\* a two-line checkout has gone through all its stages
C10_Witness ==
    \E r \in Requests :
        /\ Len(req[r].items) = 2
        /\ req[r].applied = 2
        /\ req[r].status = 201

----------------------------------------------------------------------------
(* C11 *)

\* C11: a checkout answered 201 has persisted exactly one SaleItem per cart
\* line, each carrying the identity of the Sale that this checkout (and no
\* other) created, the line's product identity and the line's quantity; and
\* every SaleItem of the store references a Sale that exists.
C11_OneSaleItemPerLine ==
    /\ \A r \in Requests :
         req[r].status = 201
         => /\ req[r].saleId \in 1..Len(sales)
            /\ \A o \in Requests \ {r} : req[o].saleId # req[r].saleId
            /\ \E first \in 0..Len(saleItems) :
                 /\ ItemsOf(req[r].saleId)
                      = (first + 1)..(first + Len(req[r].items))
                 /\ \A k \in 1..Len(req[r].items) :
                      /\ saleItems[first + k].productId = req[r].items[k].productId
                      /\ saleItems[first + k].quantity = req[r].items[k].quantity
    /\ \A k \in 1..Len(saleItems) :
         \E j \in 1..Len(sales) : sales[j].id = saleItems[k].saleId

\* two checkouts were answered 201, one of them with two lines of different
\* quantities
C11_Witness ==
    /\ \A r \in Requests : req[r].status = 201
    /\ \E r \in Requests :
         /\ Len(req[r].items) = 2
         /\ req[r].items[1].quantity # req[r].items[2].quantity

----------------------------------------------------------------------------
(* C12 *)

\* the SaleItems of r's Sale are the lines of r's cart, with the lines' prices
PricesOfCart(r) ==
    \E first \in 0..Len(saleItems) :
        /\ ItemsOf(req[r].saleId) = (first + 1)..(first + Len(req[r].items))
        /\ \A k \in 1..Len(req[r].items) :
             /\ saleItems[first + k].productId = req[r].items[k].productId
             /\ saleItems[first + k].price = req[r].items[k].price

\* C12: the unit price on every SaleItem is the price of the submitted cart
\* line, whatever the product's price is when the checkout runs, and no step of
\* the system (a later price update among them) changes an existing SaleItem.
C12_PriceSnapshot ==
    /\ [](\A r \in Requests :
            (req[r].saleId # 0 /\ ItemsOf(req[r].saleId) # {}) => PricesOfCart(r))
    /\ [][\A k \in 1..Len(saleItems) :
            k <= Len(saleItems') /\ saleItems'[k] = saleItems[k]]_vars

\* a checkout was answered 201 and one of its SaleItems carries a price that
\* is not the price its product has now
C12_Witness ==
    \E r \in Requests :
        /\ req[r].status = 201
        /\ \E k \in ItemsOf(req[r].saleId) :
             /\ saleItems[k].productId \in DOMAIN products
             /\ saleItems[k].price # products[saleItems[k].productId].price

----------------------------------------------------------------------------
(* C13 *)

\* every product's quantity is its initial quantity minus the decrements the
\* requests have applied
StockIsInitialLessApplied ==
    /\ DOMAIN products = DOMAIN initial
    /\ \A p \in DOMAIN initial :
         products[p].quantity = initial[p].quantity - SumApplied(Requests, p)

\* C13: when createSaleItems fails after the Sale was persisted, the checkout
\* is answered with a failure, the Sale of that checkout stays in the store
\* with no SaleItem, and the checkout has applied no stock decrement, neither
\* then nor later.
C13_ItemsFailureKeepsSale ==
    \A r \in Requests :
        req[r].fault = "createSaleItems"
        => /\ Done(r)
           /\ req[r].status \in 400..599
           /\ req[r].saleId \in 1..Len(sales)
           /\ sales[req[r].saleId].id = req[r].saleId
           /\ sales[req[r].saleId].total = req[r].total
           /\ ItemsOf(req[r].saleId) = {}
           /\ req[r].applied = 0
           /\ StockIsInitialLessApplied

\* createSaleItems failed for a checkout of a product in stock, while the
\* other checkout went through
C13_Witness ==
    \E r \in Requests :
        /\ req[r].fault = "createSaleItems"
        /\ Len(sales) = 2
        /\ \A k \in 1..Len(req[r].items) : LineValid(req[r].items[k], initial)
        /\ \E o \in Requests \ {r} : req[o].status = 201

----------------------------------------------------------------------------
(* C14 *)

\* C14: when the stock decrement of cart line k fails, the checkout ends with
\* a failure, the decrements of its lines 1..k-1 stay applied and those of
\* line k and of the lines after it are never applied.
C14_DecrementFailureKeepsEarlier ==
    \A r \in Requests :
        req[r].fault = "updateProduct"
        => /\ Done(r)
           /\ req[r].status \in 400..599
           /\ req[r].faultLine \in 1..Len(req[r].items)
           /\ req[r].applied = req[r].faultLine - 1
           /\ StockIsInitialLessApplied

\* the decrement of the second line failed after the first was applied
C14_Witness ==
    \E r \in Requests :
        /\ req[r].fault = "updateProduct"
        /\ req[r].faultLine = 2
        /\ req[r].applied = 1
        /\ \E p \in DOMAIN initial : products[p].quantity < initial[p].quantity

----------------------------------------------------------------------------
(* C16 *)

\* C16: the status of a failed checkout tells the class of the error: 400 for
\* an invalid quantity or insufficient stock, 404 for a line whose product
\* does not exist, 500 when createSale, createSaleItems or a stock decrement
\* failed in the store.
C16_StatusByErrorClass ==
    \A r \in Requests :
        Done(r)
        => /\ req[r].message \in {"Invalid quantity", "Insufficient stock"}
                => req[r].status = 400
           /\ req[r].message = "Product not found" => req[r].status = 404
           /\ req[r].fault \in {"createSale", "createSaleItems", "updateProduct"}
                => req[r].status = 500

----------------------------------------------------------------------------
(* C15 *)

\* the Sales that request r has created
SalesOf(r) == {k \in 1..Len(sales) : req[r].saleId = sales[k].id}

----------------------------------------------------------------------------
(* C19 *)

\* C19: the payment mode of every persisted Sale is one of Cash, Card, UPI;
\* it is the payment mode the checkout's sale header carried when it carried
\* one, and Cash when it carried none.
C19_PaymentModeStored ==
    \A r \in Requests :
        req[r].saleId # 0
        => LET stored == sales[req[r].saleId].paymentMode IN
           /\ stored \in PaymentModeEnum
           /\ req[r].paymentMode # Absent => stored = req[r].paymentMode
           /\ req[r].paymentMode = Absent => stored = "Cash"

----------------------------------------------------------------------------
(* C17 *)

\* r has been through the validation loop
Validated(r) ==
    /\ req[r].pc \notin {"idle", "validating"}
    /\ WellFormed(r)

\* what the validation loop decided for r: the error it answered, or "" when
\* it let every line through
Verdict(r) == IF req[r].saleId = 0 /\ Done(r) THEN req[r].message ELSE ""

\* C17: a step of the validation loop changes no product, Sale or SaleItem,
\* and two runs of the loop on the same cart against the same, unchanged
\* stock end alike: both accept, or both reject with the same error.
C17_ValidationPure ==
    /\ [][\A r \in Requests :
            (req[r].pc = "validating" /\ req'[r] # req[r])
            => /\ products' = products
               /\ sales' = sales
               /\ saleItems' = saleItems]_vars
    /\ [](\A r, o \in Requests :
            ( /\ Validated(r) /\ Validated(o)
              /\ req[r].items = req[o].items
              /\ products = initial )
            => Verdict(r) = Verdict(o))

\* the same two-line cart was validated twice against unchanged stock and
\* rejected twice at its second line
C17_Witness ==
    /\ products = initial
    /\ \A r \in Requests :
         /\ Validated(r) /\ Done(r)
         /\ req[r].items = req["r1"].items
         /\ Len(req[r].items) = 2
         /\ req[r].checked = 1
         /\ req[r].message = "Insufficient stock"

----------------------------------------------------------------------------
(* C18 *)

\* the handler's part of a request record
ServerSide(q) ==
    <<q.pc, q.i, q.checked, q.saleId, q.applied, q.status, q.message, q.posts>>

\* C18: a checkout sends at most one POST /api/sales; once it was answered
\* with a failure no step of it runs again, and a step in which nothing but
\* the failed checkout moves writes no product, Sale or SaleItem.
C18_FailureIsTerminal ==
    /\ [](\A r \in Requests : req[r].posts <= 1)
    /\ [][\A r \in Requests :
            (Done(r) /\ req[r].status # 201)
            => /\ ServerSide(req'[r]) = ServerSide(req[r])
               /\ (\A o \in Requests \ {r} : req'[o] = req[o])
                  => /\ products' = products
                     /\ sales' = sales
                     /\ saleItems' = saleItems]_vars

\* a checkout failed after its Sale was written, the POS page shows the
\* error, and one request was sent for it
C18_Witness ==
    \E r \in Requests :
        /\ req[r].client = "error"
        /\ req[r].saleId # 0
        /\ req[r].posts = 1

----------------------------------------------------------------------------
(* C20 *)

\* C20: a checkout appears atomic to readers: a reader that was answered a
\* sales list holding the checkout's Sale is answered, afterwards, a product
\* list in which every stock decrement of that checkout is applied, whether
\* the checkout is still running or has failed.  (Stated where the checkout
\* is the only writer.)
C20_AtomicToReaders ==
    \A r \in Requests :
        ( /\ view.pc = "products"
          /\ OnlyActivity(r)
          /\ req[r].saleId \in view.sales )
        => \A p \in DOMAIN initial :
              view.products[p].quantity
                = initial[p].quantity - Requested(req[r].items, p)

----------------------------------------------------------------------------
(* C21 *)

\* C21: when the product of a cart line has been deleted after validation and
\* before that line's inventory update, the update fails as not found and the
\* checkout ends failed: the request is answered, and not with 201.
C21_DeletedProductFailsCheckout ==
    [][\A r \in Requests :
          ( /\ req[r].pc = "applyStock"
            /\ req'[r] # req[r]
            /\ req[r].items[req[r].i].productId \notin DOMAIN products )
          => /\ req'[r].pc = "done"
             /\ req'[r].status # 201]_vars

----------------------------------------------------------------------------
(* C22 *)

\* C22: a request to product create, update or delete, to the user listing
\* or to the role change is answered 401 exactly when nobody is logged in and
\* 403 exactly when the requester is logged in with a role other than admin;
\* a refused request changes no product and no user and lists no users; a
\* request that changes a product or a user, or lists the users, comes from
\* a logged-in user whose role is admin.
C22_AdminOnly ==
    [][gate'.calls # gate.calls
         => LET admin == gate'.actor # Anonymous /\ gate'.role = "admin"
            IN /\ gate'.status = 401 <=> gate'.actor = Anonymous
               /\ gate'.status = 403 <=> (gate'.actor # Anonymous /\ ~admin)
               /\ gate'.status \in {401, 403}
                    => /\ products' = products
                       /\ users' = users
                       /\ ~gate'.listed
               /\ (products' # products \/ users' # users \/ gate'.listed)
                    => admin /\ gate'.status = 0]_vars

\* an administrator has changed the catalog, and a manager who asked for a
\* role change afterwards was answered 403
C22_Witness ==
    /\ products # initial
    /\ gate.route = "PATCH /api/users/:id/role"
    /\ gate.role = "manager"
    /\ gate.status = 403

----------------------------------------------------------------------------
(* C23 *)

\* C23: provided each storage call returns, every checkout attempt that was
\* submitted ends, completed or failed, and is answered exactly once: the
\* handler never sends a second response, a request that has ended has been
\* answered, and a request that has ended stays ended.
C23_Terminates ==
    /\ \A r \in Requests :
         (req[r].pc # "idle") ~> (Done(r) /\ req[r].responses = 1)
    /\ [](\A r \in Requests :
            /\ req[r].responses <= 1
            /\ Done(r) => req[r].responses = 1 /\ req[r].status \in {201, 400, 401})
    /\ [][\A r \in Requests : Done(r) => req'[r] = req[r]]_vars

\* a checkout of several lines was submitted and has ended on a rejected
\* inventory update after its Sale was written, answered once
C23_Witness ==
    \E r \in Requests :
        /\ Done(r)
        /\ Len(req[r].items) > 1
        /\ req[r].fault = "updateProduct"
        /\ req[r].saleId # 0
        /\ req[r].status = 400
        /\ req[r].responses = 1

----------------------------------------------------------------------------
(* C24 *)

\* the products that a SaleItem in the store refers to
Sold == {saleItems[k].productId : k \in 1..Len(saleItems)}

\* C24: a step that deletes a product changes nothing but the product
\* collection: the Sales, the SaleItems (those that refer to the deleted
\* product included), the users and the other products are as before; and
\* a product that SaleItems refer to can be deleted like any other.
C24_DeleteTouchesProductsOnly ==
    /\ [][\A p \in DOMAIN products :
            p \notin DOMAIN products'
            => /\ sales' = sales
               /\ saleItems' = saleItems
               /\ users' = users
               /\ \A o \in DOMAIN products \ {p} :
                    o \in DOMAIN products' /\ products'[o] = products[o]]_vars
    /\ [](\A p \in Sold \cap DOMAIN products :
            edits < MaxEdits
            => ENABLED (DeleteProduct /\ p \notin DOMAIN products'))

\* a product was sold and then deleted: a SaleItem of a completed checkout
\* refers to a product that is no longer in the store
C24_Witness ==
    \E r \in Requests :
        /\ Done(r) /\ req[r].status = 201
        /\ \E k \in 1..Len(saleItems) :
             /\ saleItems[k].saleId = req[r].saleId
             /\ saleItems[k].productId \in DOMAIN initial
             /\ saleItems[k].productId \notin DOMAIN products

----------------------------------------------------------------------------
(* C25 *)

\* C25: with the earlier createSale(sale, items), when two requests have both
\* been answered 201 the quantity of every product is its initial quantity
\* less the quantities the two carts sold of it:
\* both calls have taken effect, however they overlapped.
C25_BothCallsTakeEffect ==
    ( /\ \A r \in Requests : Done(r) /\ req[r].status = 201
      /\ edits = 0 )
    => \A p \in DOMAIN initial :
          products[p].quantity
            = initial[p].quantity
                - Requested(req["r1"].items, p) - Requested(req["r2"].items, p)

----------------------------------------------------------------------------
(* C26 *)

\* C26: a checkout that runs alone and whose lines for one product sum to
\* more than that product's stock is rejected with 400 "Insufficient stock"
\* and leaves the store untouched, also when each of its lines alone is
\* within the stock; so no checkout subtracts more than the stock it was
\* validated against.
C26_CartWithinStock ==
    \A r \in Requests :
        ( /\ Done(r)
          /\ OnlyActivity(r)
          /\ WellFormed(r)
          /\ \A k \in 1..Len(req[r].items) : LineValid(req[r].items[k], initial)
          /\ \E p \in DOMAIN initial :
                Requested(req[r].items, p) > initial[p].quantity )
        => /\ req[r].status = 400
           /\ req[r].message = "Insufficient stock"
           /\ StoreUntouched

----------------------------------------------------------------------------
(* C27 *)

\* the body of r lacks the sale object, or its items are missing, no list or
\* an empty list
Malformed(r) == req[r].shape # Complete \/ req[r].items = << >>

----------------------------------------------------------------------------
(* C28 *)

\* C28: a checkout, a sales listing or a product listing asked without a
\* session is answered 401, and such a checkout reads no product and writes
\* nothing; a request with a session is never answered 401 or 403 on these
\* routes, whatever the user's role: the listings are answered, and a
\* checkout that runs alone with every line valid is answered 201.
C28_SessionOnly ==
    /\ \A r \in Requests :
         /\ (req[r].pc # "idle" /\ ~IsAuthenticated(req[r].actor))
            => /\ Done(r)
               /\ req[r].status = 401
               /\ req[r].checked = 0
               /\ req[r].saleId = 0
               /\ req[r].applied = 0
               /\ StoreUntouched
         /\ (Done(r) /\ IsAuthenticated(req[r].actor))
            => /\ req[r].status \notin {401, 403}
               /\ ( /\ req[r].total >= 0
                    /\ req[r].items # << >>
                    /\ \A k \in 1..Len(req[r].items) :
                          LineValid(req[r].items[k], initial) )
                  => req[r].status = 201
    /\ gate.route \in {"GET /api/sales", "GET /api/products"}
         => /\ gate.status = 401 <=> gate.actor = Anonymous
            /\ gate.status = 200 <=> gate.actor # Anonymous
            /\ gate.listed <=> gate.actor # Anonymous

\* a manager's checkout has completed, and the sales listing was refused to
\* a requester without a session
C28_Witness ==
    /\ Done("r1")
    /\ req["r1"].actor # Anonymous
    /\ users[req["r1"].actor].role = "manager"
    /\ req["r1"].status = 201
    /\ gate.route = "GET /api/sales"
    /\ gate.status = 401

----------------------------------------------------------------------------
(* C29 *)

\* C29: the quantity of every cart entry is at most the stock of its product
\* as the page had loaded it; a product loaded with stock 0 is in no entry.
C29_CartWithinLoadedStock ==
    \A k \in 1..Len(cart) :
        /\ 2 * cart[k].quantity <= cart[k].stock
        /\ cart[k].stock # 0

----------------------------------------------------------------------------
(* C30 *)

\* C30: every cart entry has a quantity of at least 1, and no two entries
\* are of the same product.
C30_CartEntriesDistinctPositive ==
    /\ \A k \in 1..Len(cart) : cart[k].quantity >= 1
    /\ \A j, k \in 1..Len(cart) :
         cart[j].productId = cart[k].productId => j = k

\* two products are in the cart, each in one entry: the first clicked once,
\* the other clicked again, which has merged into its entry
C30_Witness ==
    /\ Len(cart) = 2
    /\ cart[1].productId = "P2"
    /\ cart[1].quantity = 1
    /\ cart[2].productId = "P1"
    /\ cart[2].quantity >= 2

====
